---- MODULE Spec2Model ----
(***************************************************************************)
(* Model of translator_legacy_fixed.py: a resumable batch translator.     *)
(* A run loads iccv2025.csv, merges result.csv (the checkpoint) into it,  *)
(* translates the still-null cells row by row through a retried remote    *)
(* call, and rewrites result.csv after every row.                         *)
(*                                                                         *)
(* Text is a sequence of one-character strings.  A cell of a DataFrame is  *)
(* either Null (None / NaN) or Str(text).  A CSV file holds encoded field  *)
(* texts; to_csv and read_csv are modelled as the conversions they are.    *)
(***************************************************************************)
EXTENDS Integers, Sequences, FiniteSets, TLC

\* ------------------------------------------------------------------ bounds
MaxRows == 2        \* rows of the input table
MaxKills == 1       \* kills of the process in one behaviour

\* ------------------------------------------------------- program constants
MaxAttempts == 5    \* the retrier's attempt budget
WaitMultiplier == 1 \* wait_exponential(multiplier=1, ...)
WaitMin == 4        \* wait_exponential(..., min=4, ...)
WaitMax == 60       \* wait_exponential(..., max=60)
ExpBase == 2        \* wait_exponential's default exp_base

\* -------------------------------------------------------------------- text
DQ == "\""
NL == "\n"
COMMA == ","
SQ == "'"
SP == " "
FWCOMMA == "FULLWIDTH-COMMA"   \* the one character U+FF0C

Null == [null |-> TRUE, text |-> <<>>]
Str(s) == [null |-> FALSE, text |-> s]
\* pd.isna / Series.isnull
IsNa(c) == c.null

\* "[翻译失败 (5次重试失败)]", "[标题翻译失败]", "[摘要翻译失败]": each bracketed
\* literal is kept as three characters, the middle one standing for its words.
fail_marker == <<"[", "fail-after-5-retries", "]">>
TitleFailed == <<"[", "title-translation-failed", "]">>
AbstractFailed == <<"[", "abstract-translation-failed", "]">>

\* str.replace(old, new) for one-character old and new
Replace(s, old, new) == [i \in 1..Len(s) |-> IF s[i] = old THEN new ELSE s[i]]

\* a sanitizer that replaces the double quotes only
Sanitize_quotes_only(s) == Replace(s, DQ, SQ)

\* cn_res.replace('"', "'").replace('\n', ' ').replace(',', '，')
Sanitize(s) == Replace(Replace(Replace(s, DQ, SQ), NL, SP), COMMA, FWCOMMA)

\* ------------------------------------------------------------ CSV fields
SourceCols == {"title", "abstract"}
required_cn_cols == <<"title_cn", "cn_abstract">>
CnCols == {required_cn_cols[k] : k \in 1..Len(required_cn_cols)}
AllCols == SourceCols \cup CnCols

\* Field texts read_csv turns into NaN (a part of pandas' default na_values;
\* keep_default_na is left at its default by both read_csv calls).
NaValues == {<<>>, <<"N", "A">>, <<"n", "a", "n">>, <<"N", "o", "n", "e">>}

RECURSIVE Escape(_)
\* csv doublequote: every quote character inside a quoted field is doubled
Escape(s) ==
    IF s = <<>> THEN <<>>
    ELSE (IF Head(s) = DQ THEN <<DQ, DQ>> ELSE <<Head(s)>>) \o Escape(Tail(s))

RECURSIVE Unescape(_)
Unescape(s) ==
    IF s = <<>> THEN <<>>
    ELSE IF Head(s) = DQ /\ Len(s) >= 2 /\ s[2] = DQ
         THEN <<DQ>> \o Unescape(Tail(Tail(s)))
         ELSE <<Head(s)>> \o Unescape(Tail(s))

\* QUOTE_MINIMAL: a field is quoted when it holds the delimiter, the quote
\* character or a line break
NeedsQuote(s) == \E i \in 1..Len(s) : s[i] \in {DQ, COMMA, NL}

\* DataFrame.to_csv of one cell: None/NaN is written as the empty field
WriteField(c) ==
    IF IsNa(c) THEN <<>>
    ELSE IF NeedsQuote(c.text) THEN <<DQ>> \o Escape(c.text) \o <<DQ>>
    ELSE c.text

\* pd.read_csv of one field: unquote, then the NA filter
ReadField(f) ==
    LET raw == IF Len(f) >= 2 /\ f[1] = DQ /\ f[Len(f)] = DQ
               THEN Unescape(SubSeq(f, 2, Len(f) - 1))
               ELSE f
    IN  IF raw \in NaValues THEN Null ELSE Str(raw)

\* ---------------------------------------------------------------- tables
\* A file is absent, empty (zero bytes), a csv table: the columns of its
\* header and its rows of encoded fields (a field of a column the header
\* lacks is kept empty), or garbled: a csv table with one more line that no
\* parser accepts (more fields than the header has, a quote never closed).
\* A DataFrame has the same shape with cells for fields.  Row identifiers
\* are positions: index i of pandas is row i+1.
NoFile == [kind |-> "absent", cols |-> {}, rows |-> <<>>]
EmptyFile == [kind |-> "empty", cols |-> {}, rows |-> <<>>]
NoFrame == [cols |-> {}, rows |-> <<>>]

\* df.to_csv(output_file, index=False, encoding="utf-8-sig")
ToCsv(df) ==
    [kind |-> "csv", cols |-> df.cols,
     rows |-> [i \in 1..Len(df.rows) |->
                 [c \in AllCols |-> WriteField(df.rows[i][c])]]]

\* pd.read_csv(path) of a csv table
ReadCsv(f) ==
    [cols |-> f.cols,
     rows |-> [i \in 1..Len(f.rows) |->
                 [c \in AllCols |-> ReadField(f.rows[i][c])]]]

\* only a file without a header line makes read_csv raise
Unreadable_only_empty(f) == f.kind = "empty"

\* read_csv raises on a file without a header line (EmptyDataError) and on a
\* line it cannot tokenize (ParserError)
Unreadable(f) == f.kind \in {"empty", "garbled"}

Column(df, col) == [i \in 1..Len(df.rows) |-> df.rows[i][col]]

\* a column assignment that keeps every row of the series
SetColumn_union(df, col, series) ==
    LET n == IF Len(df.rows) >= Len(series) THEN Len(df.rows) ELSE Len(series)
    IN  [cols |-> df.cols \cup {col},
         rows |-> [i \in 1..n |->
                     [(IF i <= Len(df.rows) THEN df.rows[i]
                       ELSE [c \in AllCols |-> Null]) EXCEPT ![col] =
                         IF i <= Len(series) THEN series[i] ELSE Null]]]

\* df[col] = series: the series is aligned to df's index, rows the series
\* lacks become NaN, rows df lacks are dropped
SetColumn(df, col, series) ==
    [cols |-> df.cols \cup {col},
     rows |-> [i \in 1..Len(df.rows) |->
                 [df.rows[i] EXCEPT ![col] =
                     IF i <= Len(series) THEN series[i] ELSE Null]]]

\* for col in required_cn_cols: if col not in df.columns: df[col] = None
InitColumns(df) ==
    [cols |-> df.cols \cup CnCols,
     rows |-> [i \in 1..Len(df.rows) |->
                 [c \in AllCols |->
                     IF c \in df.cols THEN df.rows[i][c] ELSE Null]]]

\* combine_first with the operands' roles exchanged: other's value wins
combine_first_other_wins(self, other) ==
    LET n == IF Len(self) >= Len(other) THEN Len(self) ELSE Len(other)
        At(s, i) == IF i <= Len(s) THEN s[i] ELSE Null
    IN  [i \in 1..n |-> IF ~IsNa(At(other, i)) THEN At(other, i) ELSE At(self, i)]

\* Series.combine_first: over the union of both indexes, self's value where
\* it is not null, other's value elsewhere
combine_first(self, other) ==
    LET n == IF Len(self) >= Len(other) THEN Len(self) ELSE Len(other)
        At(s, i) == IF i <= Len(s) THEN s[i] ELSE Null
    IN  [i \in 1..n |-> IF ~IsNa(At(self, i)) THEN At(self, i) ELSE At(other, i)]

\* if col in df_existing.columns: df[col] = df[col].combine_first(df_existing[col])
MergeColumn(df, df_existing, col) ==
    IF col \in df_existing.cols
    THEN SetColumn(df, col, combine_first(Column(df, col), Column(df_existing, col)))
    ELSE df

RECURSIVE MergeColumns(_, _, _)
\* for col in required_cn_cols: ...
MergeColumns(df, df_existing, cols) ==
    IF cols = <<>> THEN df
    ELSE MergeColumns(MergeColumn(df, df_existing, Head(cols)), df_existing, Tail(cols))

\* Steps 1-3 of main: load, add the translated columns, merge the checkpoint;
\* an exception while reading the checkpoint leaves df as loaded
LoadAndMerge(inp, out) ==
    LET df == InitColumns(ReadCsv(inp))
    IN  IF out.kind = "absent" THEN df
        ELSE IF Unreadable(out) THEN df
        ELSE MergeColumns(df, ReadCsv(out), required_cn_cols)

\* the same selection, the last row first
remaining_indices_descending(df) ==
    LET w == SelectSeq([i \in 1..Len(df.rows) |-> i],
                       LAMBDA i : IsNa(df.rows[i]["cn_abstract"])
                                  \/ IsNa(df.rows[i]["title_cn"]))
    IN  [k \in 1..Len(w) |-> w[Len(w) + 1 - k]]

\* df[df['cn_abstract'].isnull() | df['title_cn'].isnull()].index
remaining_indices(df) ==
    SelectSeq([i \in 1..Len(df.rows) |-> i],
              LAMBDA i : IsNa(df.rows[i]["cn_abstract"]) \/ IsNa(df.rows[i]["title_cn"]))

\* ----------------------------------------------------------------- retry
RECURSIVE Pow(_, _)
Pow(b, e) == IF e = 0 THEN 1 ELSE b * Pow(b, e - 1)

Min2(a, b) == IF a <= b THEN a ELSE b
Max2(a, b) == IF a >= b THEN a ELSE b

\* wait_exponential with the exponent taken from the attempt number itself
wait_exponential_from_attempt(attempt_number) ==
    Max2(Max2(0, WaitMin),
         Min2(WaitMultiplier * Pow(ExpBase, attempt_number), WaitMax))

\* wait_exponential without its floor
wait_exponential_no_floor(attempt_number) ==
    Min2(WaitMultiplier * Pow(ExpBase, attempt_number - 1), WaitMax)

\* tenacity wait_exponential(multiplier=1, min=4, max=60) after attempt n:
\* max(max(0, min), min(multiplier * exp_base ** (n - 1), max))
wait_exponential(attempt_number) ==
    Max2(Max2(0, WaitMin),
         Min2(WaitMultiplier * Pow(ExpBase, attempt_number - 1), WaitMax))

\* a retrier that stops one attempt late
stop_one_late(attempt_number) == attempt_number > MaxAttempts

\* stop_after_attempt(5)
stop_after_attempt(attempt_number) == attempt_number >= MaxAttempts

\* What one call of translate_text's body does: raise, return None (a
\* structurally empty response) or return the message content.
Raises == [kind |-> "raise", text |-> <<>>]
ReturnsNone == [kind |-> "none", text |-> <<>>]
Returns(s) == [kind |-> "text", text |-> s]

\* a retrier that also retries when the body returns None
retry_if_exception_or_none(r) == r.kind \in {"raise", "none"}

\* retry=retry_if_exception_type(Exception): an attempt is retried when it
\* raised, whatever it raised
retry_if_exception_type(r) == r.kind = "raise"

\* Non-empty contents the endpoint may answer with
Contents == {<<"N", "A">>, <<DQ, "a", DQ, COMMA, NL>>}

\* Python truthiness of translate_text's result
Truthy(r) == r.kind = "text" /\ r.text # <<>>

\* a title branch that stores a falsy result as it is
TitleValue_no_placeholder(r) == IF Truthy(r) THEN Str(r.text) ELSE Null

\* title branch: title_cn_res if title_cn_res else "[标题翻译失败]"
TitleValue(r) == IF Truthy(r) THEN Str(r.text) ELSE Str(TitleFailed)

\* abstract branch: sanitized text, or "[摘要翻译失败]"
AbstractValue(r) == IF Truthy(r) THEN Str(Sanitize(r.text)) ELSE Str(AbstractFailed)

\* ----------------------------------------------------------------- state
VARIABLES
    HF_TOKEN,   \* is the environment variable HF_TOKEN set and not empty
    input,      \* iccv2025.csv, never written (it may be missing)
    answer,     \* the non-empty content the endpoint answers with
    file,       \* result.csv
    pc,         \* position of the process: idle, row, title, abstract,
                \* persist, sleep; or how the last run ended: done (all rows
                \* visited), full (nothing to translate), killed
    df,         \* the DataFrame of main
    work,       \* remaining_indices
    pos,        \* position of the for loop in work
    row,        \* row = df.loc[index], taken at the top of the loop body
    attempt,    \* attempts already made by the retried call in progress
    waits,      \* waits slept by the retrier in the retried call in progress
    last,       \* the retried call that ended in the latest step: see NoCall
    persists,   \* to_csv calls completed in this run
    merged,     \* df as it was right after the checkpoint merge of this run
    durable,    \* df as it was at the latest completed to_csv
    ckpt,       \* did result.csv exist when this run started
    kills,      \* kills so far
    exitcode    \* exit status of the latest process, NoExit while it runs

vars == <<HF_TOKEN, input, answer, file, pc, df, work, pos, row, attempt,
          waits, last, persists, merged, durable, ckpt, kills, exitcode>>

NoRow == [c \in AllCols |-> Null]
\* the retried call that ended in the latest step: its field, what it gave
\* the caller (kind raise: the retrier gave up; none or text: the value
\* returned), the attempt whose exception reached the caller (0: none) and
\* the number of times the body was invoked; or, fld empty, the outcome of
\* the attempt that the retrier decided in the latest step to retry
NoCall ==
    [fld |-> "", kind |-> "", text |-> <<>>, exc |-> 0, tries |-> 0, retried |-> ""]

Running == {"row", "title", "abstract", "persist", "sleep"}
\* no process: none yet (idle), or how the latest one ended: no token,
\* no input file, nothing to translate (full), all rows visited (done), killed
Stopped == {"idle", "notoken", "noinput", "done", "full", "killed"}

\* exit statuses: none yet, the interpreter's after main returns, exit(1),
\* and the status of a process ended by SIGKILL
NoExit == -1
ExitOk == 0
ExitFatal == 1
ExitKilled == 137

\* An input file: title and abstract columns, each field empty or a text
InputRows ==
    {[c \in AllCols |-> IF c = "title" THEN t ELSE IF c = "abstract" THEN a ELSE <<>>] :
        t \in {<<>>, <<"t">>}, a \in {<<>>, <<"b">>}}
InputFiles ==
    {[kind |-> "csv", cols |-> SourceCols, rows |-> rs] :
        rs \in UNION {[1..n -> InputRows] : n \in 1..MaxRows}}

\* what one invocation of translate_text's body may do
Outcomes == {Raises, ReturnsNone, Returns(<<>>), Returns(answer)}

Init ==
    /\ HF_TOKEN \in BOOLEAN
    /\ input \in InputFiles \cup {NoFile}
    /\ answer \in Contents
    /\ file = NoFile
    /\ pc = "idle"
    /\ df = NoFrame
    /\ work = <<>>
    /\ pos = 0
    /\ row = NoRow
    /\ attempt = 0
    /\ waits = <<>>
    /\ last = NoCall
    /\ persists = 0
    /\ merged = NoFrame
    /\ durable = NoFrame
    /\ ckpt = FALSE
    /\ kills = 0
    /\ exitcode = NoExit

\* A process that ends before it has loaded anything
EndsEarly(how, status) ==
    /\ pc' = how
    /\ exitcode' = status
    /\ df' = NoFrame
    /\ merged' = NoFrame
    /\ work' = <<>>
    /\ pos' = 0

\* The process starts: the token check of the module, then main up to the
\* loop: the input check, load, merge, select the work set
Start ==
    /\ pc \in Stopped
    /\ IF ~HF_TOKEN
       THEN EndsEarly("notoken", ExitFatal)      \* exit(1)
       ELSE IF input.kind = "absent"
       THEN EndsEarly("noinput", ExitOk)         \* return
       ELSE LET d == LoadAndMerge(input, file)
                w == remaining_indices(d)
            IN  /\ df' = d
                /\ merged' = d
                /\ work' = w
                /\ pos' = IF w = <<>> THEN 0 ELSE 1
                /\ pc' = IF w = <<>> THEN "full" ELSE "row"
                /\ exitcode' = IF w = <<>> THEN ExitOk ELSE NoExit
    /\ ckpt' = (file.kind # "absent")
    /\ row' = NoRow
    /\ attempt' = 0
    /\ waits' = <<>>
    /\ last' = NoCall
    /\ persists' = 0
    /\ UNCHANGED <<HF_TOKEN, input, answer, file, durable, kills>>

index == work[pos]

\* top of the loop body: row = df.loc[index]
RowBegin ==
    /\ pc = "row"
    /\ row' = df.rows[index]
    /\ last' = NoCall
    /\ pc' = "title"
    /\ UNCHANGED <<HF_TOKEN, input, answer, file, df, work, pos, attempt, waits, persists,
                   merged, durable, ckpt, kills, exitcode>>

\* a title guard that does not look at title_cn
TitleGuard_source_only == ~IsNa(row["title"])

\* an abstract guard that looks at the source value only
AbstractGuard_source_only == ~IsNa(row["abstract"])

\* an abstract guard that looks at the translated cell only
AbstractGuard_target_only == IsNa(row["cn_abstract"])

\* row.get('title') and row.get('abstract') are None when the table lacks
\* the column, and the cells of a column the table lacks are Null here.
\* pd.isna(row['title_cn']) and not pd.isna(current_title)
TitleGuard == IsNa(row["title_cn"]) /\ ~IsNa(row["title"])
\* pd.isna(row['cn_abstract']) and not pd.isna(current_abstract)
AbstractGuard == IsNa(row["cn_abstract"]) /\ ~IsNa(row["abstract"])

\* reraise=False: a RetryError (no attempt's exception) reaches the caller
Reraised_wrapped(attempt_number) == 0

\* reraise=True: the exception of the last attempt is raised to the caller
Reraised(attempt_number) == attempt_number

\* df.at[index, col] = v
SetAt(d, i, col, v) == [d EXCEPT !.rows[i][col] = v]

\* One attempt of the retried translate_text call for field fld whose
\* translated column is col; Value is what the branch stores on a return.
\* The attempt raises (and the retrier sleeps or gives up) or returns.
Attempt(fld, col, r, nextpc) ==
    LET n == attempt + 1
    IN  /\ IF retry_if_exception_type(r)
           THEN IF stop_after_attempt(n)
                THEN /\ df' = SetAt(df, index, col, Str(fail_marker))
                     /\ last' = [fld |-> fld, kind |-> "raise", text |-> <<>>,
                                 exc |-> Reraised(n), tries |-> n, retried |-> ""]
                     /\ attempt' = 0
                     /\ waits' = <<>>
                     /\ pc' = nextpc
                ELSE /\ attempt' = n
                     /\ waits' = Append(waits, wait_exponential(n))
                     /\ last' = [NoCall EXCEPT !.retried = r.kind]
                     /\ UNCHANGED <<df, pc>>
           ELSE /\ df' = SetAt(df, index, col,
                               IF fld = "title" THEN TitleValue(r) ELSE AbstractValue(r))
                /\ last' = [fld |-> fld, kind |-> r.kind, text |-> r.text,
                            exc |-> 0, tries |-> n, retried |-> ""]
                /\ attempt' = 0
                /\ waits' = <<>>
                /\ pc' = nextpc
        /\ UNCHANGED <<HF_TOKEN, input, answer, file, work, pos, row, persists, merged,
                       durable, ckpt, kills, exitcode>>

TitleSkip ==
    /\ pc = "title"
    /\ ~TitleGuard
    /\ pc' = "abstract"
    /\ last' = NoCall
    /\ UNCHANGED <<HF_TOKEN, input, answer, file, df, work, pos, row, attempt, waits,
                   persists, merged, durable, ckpt, kills, exitcode>>

TitleAttempt ==
    /\ pc = "title"
    /\ TitleGuard
    /\ \E r \in Outcomes : Attempt("title", "title_cn", r, "abstract")

AbstractSkip ==
    /\ pc = "abstract"
    /\ ~AbstractGuard
    /\ pc' = "persist"
    /\ last' = NoCall
    /\ UNCHANGED <<HF_TOKEN, input, answer, file, df, work, pos, row, attempt, waits,
                   persists, merged, durable, ckpt, kills, exitcode>>

AbstractAttempt ==
    /\ pc = "abstract"
    /\ AbstractGuard
    /\ \E r \in Outcomes : Attempt("abstract", "cn_abstract", r, "persist")

\* df.to_csv(output_file, ...) run to its end
Persist ==
    /\ pc = "persist"
    /\ file' = ToCsv(df)
    /\ durable' = df
    /\ persists' = persists + 1
    /\ pc' = "sleep"
    /\ last' = NoCall
    /\ UNCHANGED <<HF_TOKEN, input, answer, df, work, pos, row, attempt, waits, merged,
                   ckpt, kills, exitcode>>

\* time.sleep(2), then the next index or the end of main
Sleep ==
    /\ pc = "sleep"
    /\ IF pos < Len(work)
       THEN /\ pos' = pos + 1
            /\ pc' = "row"
            /\ exitcode' = exitcode
       ELSE /\ pos' = pos
            /\ pc' = "done"
            /\ exitcode' = ExitOk
    /\ UNCHANGED <<HF_TOKEN, input, answer, file, df, work, row, attempt, waits,
                   last, persists, merged, durable, ckpt, kills>>

\* The process dies: everything in memory is gone
Dead ==
    /\ pc' = "killed"
    /\ kills' = kills + 1
    /\ exitcode' = ExitKilled
    /\ df' = NoFrame
    /\ merged' = NoFrame
    /\ work' = <<>>
    /\ pos' = 0
    /\ row' = NoRow
    /\ attempt' = 0
    /\ waits' = <<>>
    /\ last' = NoCall
    /\ persists' = 0
    /\ UNCHANGED <<HF_TOKEN, input, answer, durable, ckpt>>

\* Killed anywhere but inside to_csv: result.csv is as the last to_csv left it
Kill ==
    /\ pc \in Running
    /\ kills < MaxKills
    /\ Dead
    /\ UNCHANGED file

ColOrder == <<"title", "abstract", "title_cn", "cn_abstract">>
\* a row whose line was cut before its last field
CutRow(r) == [c \in AllCols |-> IF c = ColOrder[Len(ColOrder)] THEN <<>> ELSE r[c]]

\* to_csv opens result.csv for writing, which empties it, and writes the
\* header and the rows in order: what a kill inside it can leave behind
Torn(f) ==
    {EmptyFile}
    \cup {[f EXCEPT !.rows = SubSeq(f.rows, 1, k)] : k \in 0..(Len(f.rows) - 1)}
    \cup {[f EXCEPT !.rows = Append(SubSeq(f.rows, 1, k - 1), CutRow(f.rows[k]))] :
            k \in 1..Len(f.rows)}

KillMidWrite ==
    /\ pc = "persist"
    /\ kills < MaxKills
    /\ file' \in Torn(ToCsv(df))
    /\ Dead

\* Runs of the program, one after the other, none of them killed
Next ==
    \/ Start
    \/ RowBegin
    \/ TitleSkip
    \/ TitleAttempt
    \/ AbstractSkip
    \/ AbstractAttempt
    \/ Persist
    \/ Sleep

Spec == Init /\ [][Next]_vars

\* The same runs, any of which may be killed
KillNext ==
    \/ Start
    \/ RowBegin
    \/ TitleSkip
    \/ TitleAttempt
    \/ AbstractSkip
    \/ AbstractAttempt
    \/ Persist
    \/ Sleep
    \/ Kill
    \/ KillMidWrite

KillSpec == Init /\ [][KillNext]_vars

\* A started process keeps executing: the steps of a run are taken
Step ==
    \/ RowBegin
    \/ TitleSkip
    \/ TitleAttempt
    \/ AbstractSkip
    \/ AbstractAttempt
    \/ Persist
    \/ Sleep

\* the runs whose end is checked: those in which the content the endpoint
\* answers with is not a text read_csv takes for NaN
LiveInit == Init /\ answer \notin NaValues

LiveSpec == LiveInit /\ [][Next]_vars /\ WF_vars(Step)

\* result.csv is edited while no process runs: its rows are put in another
\* order (sorted, say), nothing else changes
Shuffle ==
    /\ pc \in Stopped
    /\ file.kind = "csv"
    /\ \E p \in Permutations(1..Len(file.rows)) :
          /\ file' = [file EXCEPT !.rows = [i \in 1..Len(file.rows) |-> file.rows[p[i]]]]
          /\ file' # file
    /\ UNCHANGED <<HF_TOKEN, input, answer, pc, df, work, pos, row, attempt, waits,
                   last, persists, merged, durable, ckpt, kills, exitcode>>

\* Runs of the program, result.csv reordered between them
ReorderNext ==
    \/ Start
    \/ RowBegin
    \/ TitleSkip
    \/ TitleAttempt
    \/ AbstractSkip
    \/ AbstractAttempt
    \/ Persist
    \/ Sleep
    \/ Shuffle

ReorderSpec == Init /\ [][ReorderNext]_vars

\* ------------------------------------------ runs on tables of other shapes
\* Runs whose input may lack the abstract column and whose first run may find
\* a result.csv left by a run on another input: other records, fewer rows
\* than the input or more.
PartialInputs ==
    {[kind |-> "csv", cols |-> {"title"}, rows |-> rs] :
        rs \in UNION {[1..n -> {r \in InputRows : r["abstract"] = <<>>}] :
                        n \in 1..MaxRows}}

OtherRow ==
    [c \in AllCols |-> IF c = "title" THEN <<"u">>
                        ELSE IF c = "abstract" THEN <<"v">>
                        ELSE IF c = "title_cn" THEN <<"y">> ELSE <<>>]

OtherCheckpoints ==
    {[kind |-> "csv", cols |-> AllCols, rows |-> [i \in 1..n |-> OtherRow]] :
        n \in {1, MaxRows + 1}}

TableInit ==
    /\ HF_TOKEN = TRUE
    /\ input \in InputFiles \cup PartialInputs
    /\ answer \in Contents
    /\ file \in {NoFile} \cup OtherCheckpoints
    /\ pc = "idle"
    /\ df = NoFrame
    /\ work = <<>>
    /\ pos = 0
    /\ row = NoRow
    /\ attempt = 0
    /\ waits = <<>>
    /\ last = NoCall
    /\ persists = 0
    /\ merged = NoFrame
    /\ durable = NoFrame
    /\ ckpt = FALSE
    /\ kills = 0
    /\ exitcode = NoExit

TableSpec == TableInit /\ [][Next]_vars

\* ---------------------------------------------------- the checkpoint merge
\* The merge alone, on any input table and any checkpoint: the input may
\* already carry translated columns, the checkpoint may lack columns and
\* have more or fewer rows than the input.
MergeCells == {<<>>, <<"x">>}
CkptCells == {<<>>, <<"y">>, <<"N", "A">>}

TableRows(cols, n, cells) ==
    {[c \in AllCols |-> IF c \in CnCols THEN (IF c \in cols THEN r[c] ELSE <<>>)
                        ELSE <<"s">>] : r \in [CnCols -> cells]}

MergeInputs ==
    {[kind |-> "csv", cols |-> SourceCols \cup cs, rows |-> rs] :
        cs \in SUBSET CnCols,
        rs \in UNION {[1..n -> TableRows(CnCols, n, MergeCells)] : n \in 1..MaxRows}}

\* a table's fields of the columns its header lacks are empty
Normal(f) ==
    [f EXCEPT !.rows = [i \in 1..Len(f.rows) |->
        [c \in AllCols |-> IF c \in f.cols THEN f.rows[i][c] ELSE <<>>]]]

\* a table with all the columns and, after its rows, a line no parser accepts
Garbled ==
    {[kind |-> "garbled", cols |-> AllCols, rows |-> rs] :
        rs \in UNION {[1..n -> TableRows(CnCols, n, CkptCells)] : n \in 1..MaxRows}}

Checkpoints ==
    {NoFile, EmptyFile}
    \cup {Normal([kind |-> "csv", cols |-> SourceCols \cup cs, rows |-> rs]) :
            cs \in SUBSET CnCols,
            rs \in UNION {[1..n -> TableRows(CnCols, n, CkptCells)] : n \in 0..MaxRows}}
    \cup Garbled

MergeInit ==
    /\ HF_TOKEN = TRUE
    /\ input \in {Normal(f) : f \in MergeInputs}
    /\ file \in Checkpoints
    /\ answer = <<"a">>
    /\ pc = "idle"
    /\ df = NoFrame
    /\ work = <<>>
    /\ pos = 0
    /\ row = NoRow
    /\ attempt = 0
    /\ waits = <<>>
    /\ last = NoCall
    /\ persists = 0
    /\ merged = NoFrame
    /\ durable = NoFrame
    /\ ckpt = FALSE
    /\ kills = 0
    /\ exitcode = NoExit

MergeNext == Start /\ pc = "idle"

MergeSpec == MergeInit /\ [][MergeNext]_vars

\* ------------------------------------------------------------------ claims
Merged == pc \in {"row", "full"}
Fresh == InitColumns(ReadCsv(input))
Existing == ReadCsv(file)

\* C1 (as claimed): once a translated cell is non-null it keeps its value in
\* every later state of the run and after the checkpoint merge of the next
\* run; no step overwrites a non-null translated cell.
C1_NeverOverwritten ==
    [][\A i \in 1..Len(df.rows) : \A c \in CnCols :
          ~IsNa(df.rows[i][c]) => df'.rows[i][c] = df.rows[i][c]]_vars

\* C2: after the merge, for every translated column the checkpoint has and
\* every row in both tables, the cell is the checkpoint's when the fresh cell
\* is null and the checkpoint's is not, and the fresh cell otherwise; a column
\* the checkpoint lacks leaves the fresh column as it is.
C2_MergeCellwise ==
    (Merged /\ file.kind = "csv") =>
        \A i \in 1..Len(Fresh.rows) : \A c \in CnCols :
            /\ (c \in Existing.cols /\ i <= Len(Existing.rows)) =>
                  df.rows[i][c] =
                     IF IsNa(Fresh.rows[i][c]) /\ ~IsNa(Existing.rows[i][c])
                     THEN Existing.rows[i][c]
                     ELSE Fresh.rows[i][c]
            /\ c \notin Existing.cols => df.rows[i][c] = Fresh.rows[i][c]

C2_Witness ==
    /\ Merged
    /\ file.kind = "csv"
    /\ \E i \in 1..Len(Fresh.rows) : \E c \in CnCols :
          /\ c \in Existing.cols
          /\ i <= Len(Existing.rows)
          /\ IsNa(Fresh.rows[i][c])
          /\ ~IsNa(Existing.rows[i][c])
          /\ df.rows[i][c] = Existing.rows[i][c]
    /\ \E i \in 1..Len(Fresh.rows) : \E c \in CnCols :
          /\ c \in Existing.cols
          /\ i <= Len(Existing.rows)
          /\ ~IsNa(Fresh.rows[i][c])
          /\ ~IsNa(Existing.rows[i][c])
          /\ df.rows[i][c] = Fresh.rows[i][c]
          /\ df.rows[i][c] # Existing.rows[i][c]
    /\ \E c \in CnCols : c \notin Existing.cols

FieldCol(fld) == IF fld = "title" THEN "title_cn" ELSE "cn_abstract"

\* C3 (as claimed): result.csv is never torn (it is absent or exactly what the
\* latest completed to_csv wrote), and after a run's merge every translated
\* cell that the completed to_csv calls had saved non-null is non-null.
C3_AtMostOneRowLost ==
    /\ file = NoFile \/ file = ToCsv(durable)
    /\ (df # NoFrame /\ durable # NoFrame) =>
          \A i \in 1..Len(durable.rows) : \A c \in CnCols :
              ~IsNa(durable.rows[i][c]) =>
                  (i <= Len(df.rows) /\ ~IsNa(df.rows[i][c]))

\* C4: when the retried call of a field ends, the cell is non-null and is
\* decided by how the call ended: the returned non-empty text (sanitized for
\* the abstract), the field's placeholder for an empty or null return, the
\* retry sentinel when the retrier gave up; and when the row reaches its
\* to_csv, every field that was null with a non-null source has been
\* attempted, whatever happened to the title.
C4_OutcomeDecidesCell ==
    /\ fail_marker \notin {TitleFailed, AbstractFailed}
    /\ last.fld # "" =>
          LET cell == df.rows[index][FieldCol(last.fld)]
          IN  /\ ~IsNa(cell)
              /\ last.kind = "raise" => cell = Str(fail_marker)
              /\ (last.kind = "text" /\ last.text # <<>>) =>
                    cell = Str(IF last.fld = "abstract"
                               THEN Sanitize(last.text) ELSE last.text)
              /\ (last.kind = "none" \/ (last.kind = "text" /\ last.text = <<>>)) =>
                    cell = Str(IF last.fld = "abstract"
                               THEN AbstractFailed ELSE TitleFailed)
    /\ pc = "persist" =>
          /\ TitleGuard => ~IsNa(df.rows[index]["title_cn"])
          /\ AbstractGuard =>
                (~IsNa(df.rows[index]["cn_abstract"]) /\ last.fld = "abstract")

C4_Witness ==
    /\ pc = "persist"
    /\ TitleGuard
    /\ AbstractGuard
    /\ df.rows[index]["title_cn"] = Str(fail_marker)
    /\ last.fld = "abstract"
    /\ last.kind = "text"
    /\ NeedsQuote(last.text)
    /\ df.rows[index]["cn_abstract"] = Str(Sanitize(last.text))
    /\ Sanitize(last.text) # last.text

\* C5: a retried call invokes the endpoint at most 5 times (at most 4 of
\* its attempts are behind it while it is in progress) and only for a
\* cell that was null with a non-null source; to_csv has completed once for
\* every row of the work set visited so far; a run that ends after the loop
\* has visited and persisted every row of the work set; and every run that
\* entered the loop reaches that end, whatever the endpoint does.
C5_Safety ==
    /\ attempt < MaxAttempts
    /\ attempt > 0 => \/ (pc = "title" /\ TitleGuard)
                      \/ (pc = "abstract" /\ AbstractGuard)
    /\ pc \in {"row", "title", "abstract", "persist"} => persists = pos - 1
    /\ pc = "sleep" => persists = pos
    /\ pc = "done" => (pos = Len(work) /\ persists = Len(work))

C5_NeverAborts ==
    /\ []C5_Safety
    /\ [](pc \in Running => <>(pc = "done"))

C5_Witness ==
    /\ pc = "done"
    /\ Len(work) = MaxRows
    /\ persists = MaxRows
    /\ \A i \in 1..Len(df.rows) : \A c \in CnCols : df.rows[i][c] = Str(fail_marker)

\* C6 (as claimed): when a run that started without a checkpoint has run to
\* completion, the next run finds an empty work set and ends with the
\* "fully translated" report.
C6_SecondRunEmpty ==
    [][(pc = "done" /\ ~ckpt /\ pc' # pc) => (pc' = "full" /\ work' = <<>>)]_vars

Sentinels == {fail_marker, TitleFailed, AbstractFailed}

\* C7: every external call is for a cell that was null after this run's
\* merge; and the merge hands every cell of the checkpoint that holds a
\* placeholder or the retry sentinel to the run as it is, so no later run
\* calls the endpoint for it.
C7_CallsOnlyForNull ==
    (attempt > 0 \/ last.fld # "") =>
        LET fld == IF last.fld # "" THEN last.fld
                   ELSE IF pc = "title" THEN "title" ELSE "abstract"
        IN  IsNa(merged.rows[index][FieldCol(fld)])

C7_SentinelKept ==
    (pc \in Stopped /\ pc' \notin Stopped /\ file.kind = "csv") =>
        \A i \in 1..Len(file.rows) : \A c \in CnCols :
            file.rows[i][c] \in Sentinels =>
                (i <= Len(merged'.rows) /\ merged'.rows[i][c] = Str(file.rows[i][c]))

C7_NoCallForNonNull == []C7_CallsOnlyForNull /\ [][C7_SentinelKept]_vars

C7_Witness ==
    /\ ckpt
    /\ pc = "full"
    /\ \E i \in 1..Len(merged.rows) : \A c \in CnCols :
          merged.rows[i][c] = Str(fail_marker)

\* C8: the retrier gives up in the step in which the 5th invocation of the
\* body raises, 4 failed attempts and 4 sleeps behind it, never later (no
\* call in progress has 5 attempts behind it), and the exception that
\* reaches the caller is the one the 5th attempt raised.
C8_GivesUpAtFifth ==
    (last'.kind = "raise" /\ last.kind # "raise") =>
        (attempt = MaxAttempts - 1 /\ Len(waits) = MaxAttempts - 1)

C8_FifthFailureSeen ==
    /\ attempt < MaxAttempts
    /\ Len(waits) = attempt
    /\ last.kind = "raise" => last.exc = MaxAttempts
    /\ (last.fld # "" /\ last.kind # "raise") => last.exc = 0

C9_Doubling ==
    \A k \in 1..Len(waits) : waits[k] = Min2(WaitMin * Pow(2, k - 1), WaitMax)

\* C9 (amended): the waits of a retried call are 4, 4, 4, 8: the delay
\* 2^(k-1) of the k-th failed attempt doubles, and each wait is that delay
\* raised to the floor of 4 and capped at 60.
C9_ClampedDoubling ==
    /\ Len(waits) <= 4
    /\ waits = SubSeq(<<4, 4, 4, 8>>, 1, Len(waits))
    /\ \A k \in 1..Len(waits) : waits[k] = Max2(4, Min2(Pow(2, k - 1), 60))

C9_Witness == waits = <<4, 4, 4, 8>> /\ attempt = MaxAttempts - 1

\* C10: every wait between two attempts lies in [4, 60] and the waits of one
\* retried call never decrease.
C10_WaitsBoundedMonotone ==
    \A k \in 1..Len(waits) :
        /\ 4 <= waits[k]
        /\ waits[k] <= 60
        /\ k > 1 => waits[k - 1] <= waits[k]

C10_Witness ==
    /\ Len(waits) = MaxAttempts - 1
    /\ waits[1] < waits[Len(waits)]
    /\ attempt = MaxAttempts - 1

\* C11 (as claimed): when iccv2025.csv is missing at startup the process ends
\* before any processing (nothing loaded, no checkpoint merged, no external
\* call, result.csv not written) and its exit status is not zero.
C11_MissingInputFatal ==
    pc = "noinput" =>
        /\ df = NoFrame
        /\ merged = NoFrame
        /\ attempt = 0
        /\ last = NoCall
        /\ persists = 0
        /\ file = NoFile
        /\ exitcode # ExitOk

\* C12: when result.csv exists but read_csv raises on it, the run is not
\* ended by that: after the merge step the table is the freshly loaded input
\* table, no translated cell taken from the checkpoint, the work set is the
\* one of a run without a checkpoint, and the run goes on to the loop (or
\* ends as fully translated when that work set is empty).
C12_UnreadableSkipsMerge ==
    (Merged /\ file.kind \notin {"absent", "csv"}) =>
        /\ df = Fresh
        /\ \A i \in 1..Len(df.rows) : \A c \in CnCols :
              df.rows[i][c] = ReadField(input.rows[i][c])
        /\ work = remaining_indices(LoadAndMerge(input, NoFile))
        /\ pc = IF work = <<>> THEN "full" ELSE "row"
        /\ exitcode \in {NoExit, ExitOk}

C12_Witness ==
    /\ pc = "row"
    /\ file.kind = "garbled"
    /\ \E i \in 1..Len(df.rows) : \E c \in CnCols :
          /\ i <= Len(file.rows)
          /\ ~IsNa(ReadField(file.rows[i][c]))
          /\ IsNa(df.rows[i][c])
          /\ i \in {work[k] : k \in 1..Len(work)}

SameRecord(r, f) == \A c \in SourceCols : r[c] = ReadField(f[c])
\* every source record (title, abstract) of the table is on one row only
DistinctRecords ==
    \A i, j \in 1..Len(df.rows) :
        (\A c \in SourceCols : df.rows[i][c] = df.rows[j][c]) => i = j

\* C13 (as claimed): whatever the order of the checkpoint's rows, after the
\* merge every non-null translated cell of the checkpoint is on the row of
\* the table that holds the source record it was translated from, and on no
\* other row (the records of the input are distinct and the input has no
\* translated columns of its own here).
C13_MergeByRecord ==
    (Merged /\ persists = 0 /\ file.kind = "csv" /\ DistinctRecords) =>
        /\ \A k \in 1..Len(file.rows) : \A c \in CnCols :
              ~IsNa(ReadField(file.rows[k][c])) =>
                  \A i \in 1..Len(df.rows) :
                      SameRecord(df.rows[i], file.rows[k]) =>
                          df.rows[i][c] = ReadField(file.rows[k][c])
        /\ \A i \in 1..Len(df.rows) : \A c \in CnCols :
              ~IsNa(df.rows[i][c]) =>
                  \E k \in 1..Len(file.rows) :
                      /\ SameRecord(df.rows[i], file.rows[k])
                      /\ df.rows[i][c] = ReadField(file.rows[k][c])

\* C14: the rows of the table in memory, and of every result.csv a run has
\* written, are the rows of the input loaded at the run's start, one for one
\* and with the input's records: a checkpoint with more, fewer or other rows
\* adds and removes none, processing a row adds and removes none, and every
\* to_csv writes all the rows, not only those visited so far.
C14_RowsFixed ==
    /\ df # NoFrame =>
          /\ Len(df.rows) = Len(input.rows)
          /\ Len(merged.rows) = Len(input.rows)
          /\ \A i \in 1..Len(df.rows) : SameRecord(df.rows[i], input.rows[i])
    /\ persists > 0 =>
          /\ file.kind = "csv"
          /\ Len(file.rows) = Len(input.rows)
          /\ \A i \in 1..Len(file.rows) :
                \A c \in SourceCols :
                    ReadField(file.rows[i][c]) = ReadField(input.rows[i][c])

C14_Witness ==
    /\ pc = "sleep"
    /\ ckpt
    /\ persists = 1
    /\ Len(work) > 1
    /\ Len(input.rows) = MaxRows
    /\ Len(file.rows) = MaxRows
    /\ df.rows[MaxRows]["title_cn"] = Str(OtherRow["title_cn"])

InRow == pc \in {"title", "abstract", "persist", "sleep"}

\* C15: while a row whose source value for a field is null is processed,
\* be it an empty field or a column the input lacks, no external call is
\* made for that field and its translated cell stays as the merge left it
\* (null when it was null, never a placeholder or the retry sentinel); for a
\* row with a title and no abstract only title_cn is populated.
C15_NullSourceSkipped ==
    InRow =>
        \A fld \in SourceCols :
            IsNa(row[fld]) =>
                /\ df.rows[index][FieldCol(fld)] = merged.rows[index][FieldCol(fld)]
                /\ last.fld # fld
                /\ (pc = fld) => attempt = 0
                /\ IsNa(merged.rows[index][FieldCol(fld)]) =>
                      IsNa(df.rows[index][FieldCol(fld)])

C15_Witness ==
    /\ pc = "persist"
    /\ "abstract" \notin df.cols
    /\ ~IsNa(row["title"])
    /\ IsNa(row["abstract"])
    /\ IsNa(row["title_cn"])
    /\ df.rows[index]["title_cn"] = Str(answer)
    /\ IsNa(df.rows[index]["cn_abstract"])

\* C16: the work set is visited in strictly ascending row order, one row at
\* a time; in a row the title is handled before the abstract; exactly one
\* to_csv of the table happens per visited row, after both fields and before
\* the sleep; exactly one sleep follows every row, whatever happened to its
\* fields; and an external call for a row starts only when the to_csv of
\* every earlier row of the work set has completed.
C16_State ==
    /\ \A j, k \in 1..Len(work) : j < k => work[j] < work[k]
    /\ pc \in Running => pos \in 1..Len(work)
    /\ pc \in {"row", "title", "abstract", "persist"} => persists = pos - 1
    /\ pc = "sleep" => persists = pos
    /\ attempt > 0 => (pc \in {"title", "abstract"} /\ persists = pos - 1)

C16_Step ==
    /\ (pc' = "title" /\ pc # "title") => (pc = "row" /\ pos' = pos)
    /\ (pc' = "abstract" /\ pc # "abstract") => (pc = "title" /\ pos' = pos)
    /\ (pc' = "persist" /\ pc # "persist") => (pc = "abstract" /\ pos' = pos)
    /\ (pc' = "sleep" /\ pc # "sleep") =>
          (pc = "persist" /\ pos' = pos /\ persists' = persists + 1
           /\ file' = ToCsv(df) /\ df' = df)
    /\ (pc \in Running /\ persists' # persists) => pc = "persist"
    /\ pc = "sleep" =>
          /\ pc' \in {"row", "done"}
          /\ pc' = "row" => (pos' = pos + 1 /\ work'[pos'] > work[pos])
          /\ pc' = "done" => pos = Len(work)
    /\ (pc \in Running /\ pos' # pos) => pc = "sleep"
    /\ (pc \in Running /\ pc # "persist") => file' = file
    /\ pc \in Running => work' = work

C16_Ordering == []C16_State /\ [][C16_Step]_vars

C16_Witness ==
    /\ pc = "title"
    /\ attempt > 0
    /\ Len(work) = MaxRows
    /\ pos = MaxRows
    /\ persists = MaxRows - 1
    /\ file = ToCsv(df)

Unsafe == {DQ, NL, COMMA}
Clean(s) == \A k \in 1..Len(s) : s[k] \notin Unsafe

\* C17: the value stored in cn_abstract for a non-empty text the translator
\* returned is that text, character by character, with every double quote
\* turned into a single quote, every newline into a space and every ASCII
\* comma into the full-width comma; so no value the row processor writes to
\* cn_abstract (text, placeholder or retry sentinel) holds a double quote, a
\* newline or an ASCII comma.
C17_AbstractSanitized ==
    /\ Clean(fail_marker) /\ Clean(AbstractFailed)
    /\ (last.fld = "abstract" /\ last.kind = "text" /\ last.text # <<>>) =>
          LET v == df.rows[index]["cn_abstract"].text
          IN  /\ Len(v) = Len(last.text)
              /\ \A k \in 1..Len(v) :
                    v[k] = IF last.text[k] = DQ THEN SQ
                           ELSE IF last.text[k] = NL THEN SP
                           ELSE IF last.text[k] = COMMA THEN FWCOMMA
                           ELSE last.text[k]
    /\ last.fld = "abstract" =>
          (~IsNa(df.rows[index]["cn_abstract"])
           /\ Clean(df.rows[index]["cn_abstract"].text))
    /\ \A i \in 1..Len(df.rows) :
          df.rows[i]["cn_abstract"] # merged.rows[i]["cn_abstract"] =>
              Clean(df.rows[i]["cn_abstract"].text)

C17_Witness ==
    /\ last.fld = "abstract"
    /\ last.kind = "text"
    /\ Cardinality({k \in 1..Len(last.text) : last.text[k] = DQ}) >= 2
    /\ \E k \in 1..Len(last.text) : last.text[k] = NL
    /\ \E k \in 1..Len(last.text) : last.text[k] = COMMA
    /\ df.rows[index]["cn_abstract"] = Str(<<SQ, "a", SQ, FWCOMMA, SP>>)

WorkSet == {work[k] : k \in 1..Len(work)}
Visited == {work[k] : k \in 1..pos}

\* C18: a run never changes the title or the abstract of a row; it never
\* changes a cell of a row outside its work set (a row whose two translated
\* cells are non-null after the merge) and makes no external call for such
\* a row; and a step that processes row i changes translated cells of row i
\* only, and only cells that were null.
C18_State ==
    df # NoFrame =>
        /\ \A i \in 1..Len(df.rows) : \A c \in SourceCols :
              /\ df.rows[i][c] = merged.rows[i][c]
              /\ df.rows[i][c] = ReadField(input.rows[i][c])
        /\ \A i \in 1..Len(df.rows) :
              i \notin WorkSet =>
                  /\ df.rows[i] = merged.rows[i]
                  /\ \A c \in CnCols : ~IsNa(merged.rows[i][c])
        /\ \A i \in 1..Len(df.rows) : \A c \in CnCols :
              df.rows[i][c] # merged.rows[i][c] =>
                  (i \in Visited /\ IsNa(merged.rows[i][c]))
        /\ pc \in Running =>
              (index \in WorkSet
               /\ \E c \in CnCols : IsNa(merged.rows[index][c]))

C18_Step ==
    pc \in Running =>
        /\ Len(df'.rows) = Len(df.rows)
        /\ \A i \in 1..Len(df.rows) : \A c \in AllCols :
              df'.rows[i][c] # df.rows[i][c] =>
                  (i = index /\ c \in CnCols /\ IsNa(df.rows[i][c]))

C18_Frame == []C18_State /\ [][C18_Step]_vars

C18_Witness ==
    /\ pc = "done"
    /\ ckpt
    /\ \E i \in 1..Len(df.rows) :
          /\ i \notin WorkSet
          /\ \A c \in CnCols : ~IsNa(df.rows[i][c])
    /\ \E j \in WorkSet : \E c \in CnCols :
          /\ IsNa(merged.rows[j][c])
          /\ ~IsNa(df.rows[j][c])

\* C19: the retrier stops at the first attempt that does not raise: a call
\* whose body raises on attempts 1..k-1 and returns on attempt k <= 5 has
\* invoked the body exactly k times (k-1 raising attempts and k-1 sleeps
\* before the return) and the caller gets what attempt k returned; a
\* structurally empty response is a return: the caller gets null after that
\* very attempt, and only an attempt that raised is ever retried.
C19_State ==
    /\ last.retried \in {"", "raise"}
    /\ last.retried # "" => (attempt > 0 /\ pc \in {"title", "abstract"})
    /\ (last.fld # "" /\ last.kind # "raise") =>
          /\ last.kind \in {"none", "text"}
          /\ last.tries \in 1..MaxAttempts
          /\ last.exc = 0
          /\ attempt = 0
          /\ df.rows[index][FieldCol(last.fld)] =
                IF last.kind = "text" /\ last.text # <<>>
                THEN Str(IF last.fld = "abstract" THEN Sanitize(last.text)
                         ELSE last.text)
                ELSE Str(IF last.fld = "abstract" THEN AbstractFailed
                         ELSE TitleFailed)

C19_Step ==
    (pc \in {"title", "abstract"} /\ last'.fld # "" /\ last'.kind # "raise") =>
        /\ last'.tries = attempt + 1
        /\ Len(waits) = attempt
        /\ attempt > 0 => last.retried = "raise"
        /\ pc' # pc

====
